---------------------------- MODULE Spec2Model ----------------------------
(***************************************************************************)
(* Model of the mojibake repair engine of src/mojibake_fixer.py:           *)
(* fix_text_encoding, _looks_like_valid_cjk, _fix_text_segmented and       *)
(* _try_decode_segment, together with the codecs they call.                *)
(*                                                                         *)
(* A string is a sequence of code points (naturals); a byte string is a    *)
(* sequence of naturals below 256.  Python's None is the value None below. *)
(***************************************************************************)
EXTENDS Integers, Sequences, FiniteSets, TLC

VARIABLES text, pc, fixed, result, strategy, round, cut, parts, verdict

vars == <<text, pc, fixed, result, strategy, round, cut, parts, verdict>>

-----------------------------------------------------------------------------
(* Values *)

\* Python's None; -1 is not a code point, so no string equals it.
None == << -1 >>

\* U+FFFD, the Unicode replacement character ('�' in the source).
REPLACEMENT == 65533

\* '?', the byte Python's 'replace' error handler emits when ENCODING.
QUESTION == 63

NoExc == "none"

Ok(v) == [exc |-> NoExc, val |-> v]

Raise(e) == [exc |-> e, val |-> <<>>]

-----------------------------------------------------------------------------
(* Bounds of the model *)

\* longest input text of the general specification
MaxLen == 5

\* longest input text of the idempotence specification
MaxLenIdem == 10

\* longest input text of the heuristic specification (threshold cases)
MaxLenCjk == 10

\* longest input text of the heuristic specification (range boundaries)
MaxLenEdge == 2

\* how many times the tool is run over the same field
MaxRounds == 2

\* 'P' (valid Big5 trail byte), U+0080 (Latin-1 only), U+00A1, U+00B7
\* (Latin-1 and Windows-1252), U+20AC (Windows-1252 only, byte 0x80),
\* U+611F (a CJK ideograph), U+FFFD.
Alphabet == {80, 128, 161, 183, 8364, 24863, REPLACEMENT}

\* 'P', U+00A1, U+00B7: Big5 A1 50 is U+00B7, B7 50 / B7 B7 are ideographs.
IdemAlphabet == {80, 161, 183}

\* a neutral code point, a garbage marker, an ideograph
CjkAlphabet == {80, REPLACEMENT, 19968}

\* first and last code point of every range the heuristic tests, and their
\* outer neighbours
EdgeAlphabet == {127, 128, 255, 256,
                 12287, 12288, 12351, 12352,
                 13311, 13312, 19903, 19904,
                 19967, 19968, 40959, 40960,
                 65279, 65280, 65519, 65520,
                 65532, REPLACEMENT, 65534}

SeqsUpTo(S, n) == UNION {[1..k -> S] : k \in 0..n}

-----------------------------------------------------------------------------
(* Codecs *)

\* str.encode('latin-1'): every code point below 256 is the byte of the
\* same value; any other code point raises UnicodeEncodeError.
Latin1Encode(s) ==
    IF \A i \in 1..Len(s) : s[i] < 256
    THEN Ok([i \in 1..Len(s) |-> s[i] % 256])
    ELSE Raise("UnicodeEncodeError")

\* The code points Windows-1252 assigns to bytes 0x80..0x9F (0x81, 0x8D,
\* 0x8F, 0x90 and 0x9D are unassigned in Python's cp1252).
Cp1252High ==
    (8364 :> 128) @@ (8218 :> 130) @@ (402 :> 131) @@ (8222 :> 132) @@
    (8230 :> 133) @@ (8224 :> 134) @@ (8225 :> 135) @@ (710 :> 136) @@
    (8240 :> 137) @@ (352 :> 138) @@ (8249 :> 139) @@ (338 :> 140) @@
    (381 :> 142) @@ (8216 :> 145) @@ (8217 :> 146) @@ (8220 :> 147) @@
    (8221 :> 148) @@ (8226 :> 149) @@ (8211 :> 150) @@ (8212 :> 151) @@
    (732 :> 152) @@ (8482 :> 153) @@ (353 :> 154) @@ (8250 :> 155) @@
    (339 :> 156) @@ (382 :> 158) @@ (376 :> 159)

HasCp1252Mapping(cp) ==
    \/ cp < 128
    \/ 160 <= cp /\ cp <= 255
    \/ cp \in DOMAIN Cp1252High

Cp1252Byte_Sub(cp) ==
    IF cp < 128 \/ (160 <= cp /\ cp <= 255) THEN cp
    ELSE IF cp \in DOMAIN Cp1252High THEN Cp1252High[cp]
    ELSE 26

\* one code point under str.encode('cp1252', errors='replace'): a code
\* point without a mapping becomes the byte '?'.
Cp1252Byte(cp) ==
    IF cp < 128 \/ (160 <= cp /\ cp <= 255) THEN cp
    ELSE IF cp \in DOMAIN Cp1252High THEN Cp1252High[cp]
    ELSE QUESTION

\* str.encode('cp1252', errors='replace'); never raises.
Cp1252EncodeReplace(s) == Ok([i \in 1..Len(s) |-> Cp1252Byte(s[i])])

\* The Big5 mapping restricted to the lead and trail bytes the alphabets
\* of this model can produce (0x3F, 0x50, 0x80, 0xA1, 0xB7): of these only
\* 0xA1 and 0xB7 are lead bytes and only 0x50, 0xA1, 0xB7 are trail bytes.
Big5Table ==
    (<<161, 80>> :> 183) @@ (<<161, 161>> :> 65115) @@
    (<<161, 183>> :> 9678) @@ (<<183, 80>> :> 24863) @@
    (<<183, 161>> :> 26970) @@ (<<183, 183>> :> 27645)

Cons(c, r) == IF r.exc = NoExc THEN Ok(<<c>> \o r.val) ELSE r

\* bytes.decode('big5', errors=...) from position i: a byte below 0x80 is
\* itself; otherwise the byte and its successor are looked up as a pair;
\* a missing successor or an unmapped pair is an error of ONE byte, which
\* raises UnicodeDecodeError under 'strict' and yields U+FFFD under
\* 'replace', decoding resuming at the next byte.
RECURSIVE Big5DecodeFrom(_, _, _)
Big5DecodeFrom(b, i, errors) ==
    IF i > Len(b) THEN Ok(<<>>)
    ELSE IF b[i] < 128 THEN Cons(b[i], Big5DecodeFrom(b, i + 1, errors))
    ELSE IF i < Len(b) /\ <<b[i], b[i + 1]>> \in DOMAIN Big5Table
         THEN Cons(Big5Table[<<b[i], b[i + 1]>>],
                   Big5DecodeFrom(b, i + 2, errors))
    ELSE IF errors = "strict" THEN Raise("UnicodeDecodeError")
    ELSE Cons(REPLACEMENT, Big5DecodeFrom(b, i + 1, errors))

Big5Decode(b, errors) == Big5DecodeFrom(b, 1, errors)

Catches_DecodeOnly(exc) == exc \in {"UnicodeDecodeError"}

\* the except clauses: (UnicodeEncodeError, UnicodeDecodeError) -> pass
Catches(exc) == exc \in {"UnicodeEncodeError", "UnicodeDecodeError"}

\* str.count of one character
RECURSIVE Count(_, _)
Count(s, c) ==
    IF s = <<>> THEN 0
    ELSE (IF Head(s) = c THEN 1 ELSE 0) + Count(Tail(s), c)

-----------------------------------------------------------------------------
(* _looks_like_valid_cjk *)

\* the if/elif chain of the loop body: which tally one code point feeds
Classify(cp) ==
    IF 19968 <= cp /\ cp <= 40959 THEN "cjk"          \* 0x4E00..0x9FFF
    ELSE IF 13312 <= cp /\ cp <= 19903 THEN "cjk"     \* 0x3400..0x4DBF
    ELSE IF 12288 <= cp /\ cp <= 12351 THEN "cjk"     \* 0x3000..0x303F
    ELSE IF 65280 <= cp /\ cp <= 65519 THEN "cjk"     \* 0xFF00..0xFFEF
    ELSE IF cp = 65533 THEN "garbage"                 \* 0xFFFD
    ELSE IF 128 <= cp /\ cp < 256 THEN "garbage"
    ELSE "neutral"

RECURSIVE Tally(_, _)
Tally(s, kind) ==
    IF s = <<>> THEN 0
    ELSE (IF Classify(Head(s)) = kind THEN 1 ELSE 0) + Tally(Tail(s), kind)

\* garbage_count <= len(text) * 0.3.  The double 0.3 is 0.3 - 1.1e-17; for
\* every length below 2^53 the product rounds to the double nearest to
\* 3*len/10, which is the integer itself when 10 divides len, so the
\* comparison of the integer garbage_count with it is the comparison of
\* 10 * garbage_count with 3 * len.
WithinGarbageThreshold(garbage_count, len) == 10 * garbage_count <= 3 * len

_looks_like_valid_cjk_StrictThreshold(t) ==
    IF t = <<>> THEN FALSE
    ELSE Tally(t, "cjk") > 0 /\ 10 * Tally(t, "garbage") < 3 * Len(t)

_looks_like_valid_cjk(t) ==
    IF t = <<>> THEN FALSE
    ELSE /\ Tally(t, "cjk") > 0
         /\ WithinGarbageThreshold(Tally(t, "garbage"), Len(t))

-----------------------------------------------------------------------------
(* _try_decode_segment *)

\* a try block of the helper: encode, decode leniently, return the decoded
\* text if it is plausible; a caught exception or an implausible text
\* falls through (None); an uncaught exception propagates.
ReturnIfPlausible(dec) ==
    IF dec.exc # NoExc
    THEN IF Catches(dec.exc) THEN Ok(None) ELSE dec
    ELSE IF _looks_like_valid_cjk(dec.val) THEN dec ELSE Ok(None)

DecodeLenient(enc) ==
    IF enc.exc = NoExc THEN Big5Decode(enc.val, "replace") ELSE enc

TryDecode(enc) == ReturnIfPlausible(DecodeLenient(enc))

\* "Try Latin-1 -> Big5", then "Try CP1252 -> Big5", then None
Latin1ThenCp1252(first, clean_segment) ==
    IF first.exc # NoExc \/ first.val # None THEN first
    ELSE TryDecode(Cp1252EncodeReplace(clean_segment))

DecodeClean(clean_segment) ==
    IF clean_segment = <<>> THEN Ok(None)
    ELSE Latin1ThenCp1252(TryDecode(Latin1Encode(clean_segment)),
                          clean_segment)

_try_decode_segment(segment) ==
    IF segment = <<>> THEN Ok(None)
    ELSE DecodeClean(SelectSeq(segment, LAMBDA c : c # REPLACEMENT))

-----------------------------------------------------------------------------
(* _fix_text_segmented *)

\* The locals of the loop: result (the list of pieces), segment (the run
\* being collected), is_high_byte_segment; cut records the seg_text values
\* in the order the loop completed them; exc an exception on its way out.
LoopStart ==
    [result |-> <<>>, segment |-> <<>>, is_high |-> FALSE, cut |-> <<>>,
     exc |-> NoExc]

\* "Process completed segment" / "Process final segment": a high run is
\* replaced by the helper's text when there is one, anything else is
\* appended as it is; segment is NOT reset here.
AppendPiece_Stripped(st, seg_text, decoded) ==
    IF decoded.exc # NoExc THEN [st EXCEPT !.exc = decoded.exc]
    ELSE [st EXCEPT
            !.result = Append(@, IF st.is_high /\ decoded.val # None
                                 THEN decoded.val
                                 ELSE SelectSeq(seg_text,
                                        LAMBDA c : c # REPLACEMENT)),
            !.cut = Append(@, seg_text)]

\* result.append(decoded if decoded else seg_text) / result.append(seg_text)
AppendPiece(st, seg_text, decoded) ==
    IF decoded.exc # NoExc THEN [st EXCEPT !.exc = decoded.exc]
    ELSE [st EXCEPT
            !.result = Append(@, IF st.is_high /\ decoded.val # None
                                 THEN decoded.val ELSE seg_text),
            !.cut = Append(@, seg_text)]

ProcessSegment(st) ==
    AppendPiece(st, st.segment,
                IF st.is_high THEN _try_decode_segment(st.segment)
                ELSE Ok(None))

\* segment.append(c); is_high_byte_segment = char_is_high
Collect(st, c, char_is_high) ==
    IF st.exc # NoExc THEN st
    ELSE [st EXCEPT !.segment = Append(@, c), !.is_high = char_is_high]

\* one iteration of "for i, c in enumerate(text)"
SegmentStep_NoBoundary(st, c) == Collect(st, c, c >= 128)

SegmentStep(st, c) ==
    Collect(IF st.segment # <<>> /\ (c >= 128) # st.is_high
            THEN [ProcessSegment(st) EXCEPT !.segment = <<>>]
            ELSE st,
            c, c >= 128)

RECURSIVE SegmentLoop(_, _, _)
SegmentLoop(st, t, i) ==
    IF i > Len(t) \/ st.exc # NoExc THEN st
    ELSE SegmentLoop(SegmentStep(st, t[i]), t, i + 1)

\* ''.join
RECURSIVE Join(_)
Join(list) == IF list = <<>> THEN <<>> ELSE Head(list) \o Join(Tail(list))

\* "Process final segment"
FinalSegment(after) ==
    IF after.exc = NoExc /\ after.segment # <<>>
    THEN ProcessSegment(after) ELSE after

\* the loop followed by the final segment; the locals at the return
SegmentedLocals(t) == FinalSegment(SegmentLoop(LoopStart, t, 1))

\* return ''.join(result)
JoinResult(st) ==
    IF st.exc # NoExc THEN Raise(st.exc) ELSE Ok(Join(st.result))

_fix_text_segmented(t) ==
    IF t = <<>> THEN Ok(None) ELSE JoinResult(SegmentedLocals(t))

-----------------------------------------------------------------------------
(* fix_text_encoding *)

\* the three early returns: empty, pure ASCII, nothing that looks broken
FastReject_AnyHigh(t) ==
    \/ t = <<>>
    \/ \A i \in 1..Len(t) : t[i] < 128
    \/ /\ ~ \E i \in 1..Len(t) : 128 <= t[i]
       /\ ~ \E i \in 1..Len(t) : t[i] = REPLACEMENT

FastReject(t) ==
    LET has_high_bytes  == \E i \in 1..Len(t) : 128 <= t[i] /\ t[i] < 256
        has_replacement == \E i \in 1..Len(t) : t[i] = REPLACEMENT
    IN  \/ t = <<>>
        \/ \A i \in 1..Len(t) : t[i] < 128
        \/ ~ has_high_bytes /\ ~ has_replacement

\* Strategy 1 up to the test: Latin-1 bytes decoded strictly as Big5
Latin1Candidate(t) ==
    LET enc == Latin1Encode(t)
    IN  IF enc.exc = NoExc THEN Big5Decode(enc.val, "strict") ELSE enc

\* Strategy 2 up to the test: Windows-1252 bytes decoded leniently
Cp1252Candidate(t) ==
    LET enc == Cp1252EncodeReplace(t)
    IN  IF enc.exc = NoExc THEN Big5Decode(enc.val, "replace") ELSE enc

Accept1_NoValidity(t, f) == f # t

Accept1(t, f) == f # t /\ _looks_like_valid_cjk(f)

Accept2_NotMore(t, f) ==
    /\ f # t
    /\ _looks_like_valid_cjk(f)
    /\ Count(f, REPLACEMENT) <= Count(t, REPLACEMENT)

Accept2(t, f) ==
    /\ f # t
    /\ _looks_like_valid_cjk(f)
    /\ Count(f, REPLACEMENT) < Count(t, REPLACEMENT)

Accept3_NoValidity(t, f) == f # None /\ f # <<>> /\ f # t

Accept3(t, f) ==
    f # None /\ f # <<>> /\ f # t /\ _looks_like_valid_cjk(f)

Return(value, by) ==
    /\ pc' = "done"
    /\ result' = value
    /\ strategy' = by

\* an exception no except clause catches leaves fix_text_encoding
Propagate ==
    /\ pc' = "raised"
    /\ UNCHANGED <<result, strategy, fixed>>

\* entry of fix_text_encoding, lines 65-77
Begin ==
    /\ pc = "start"
    /\ IF FastReject(text)
       THEN Return(None, 0)
       ELSE pc' = "s1" /\ UNCHANGED <<result, strategy>>
    /\ UNCHANGED <<text, fixed, round, cut, parts, verdict>>

\* the body of a try block of fix_text_encoding once its candidate (or
\* its exception) is there: return it, or go on to the next strategy
Judge(cand, accepted, by, next) ==
    IF cand.exc # NoExc
    THEN IF Catches(cand.exc)
         THEN pc' = next /\ UNCHANGED <<result, strategy, fixed>>
         ELSE Propagate
    ELSE /\ fixed' = cand.val
         /\ IF accepted
            THEN Return(cand.val, by)
            ELSE pc' = next /\ UNCHANGED <<result, strategy>>

Strategy1 ==
    /\ pc = "s1"
    /\ Judge(Latin1Candidate(text),
             Accept1(text, Latin1Candidate(text).val), 1, "s2")
    /\ UNCHANGED <<text, round, cut, parts, verdict>>

Strategy2 ==
    /\ pc = "s2"
    /\ Judge(Cp1252Candidate(text),
             Accept2(text, Cp1252Candidate(text).val), 2, "s3")
    /\ UNCHANGED <<text, round, cut, parts, verdict>>

\* lines 100-104 once _fix_text_segmented is back: st are its locals at the
\* return, cand its value
JudgeSegmented(st, cand) ==
    IF cand.exc # NoExc
    THEN Propagate /\ UNCHANGED <<cut, parts>>
    ELSE /\ fixed' = cand.val
         /\ cut' = st.cut
         /\ parts' = st.result
         /\ IF Accept3(text, cand.val)
            THEN Return(cand.val, 3)
            ELSE Return(None, 0)

\* Strategy 3 and the final "return None"; cut and parts keep the
\* segments _fix_text_segmented completed and the pieces it joined.
Strategy3 ==
    /\ pc = "s3"
    /\ JudgeSegmented(SegmentedLocals(text), _fix_text_segmented(text))
    /\ UNCHANGED <<text, round, verdict>>

\* process_dicom writes the repaired value into the field; a later run of
\* the tool over the same file calls fix_text_encoding on that value.
Reapply ==
    /\ pc = "done"
    /\ result # None
    /\ round < MaxRounds
    /\ text' = result
    /\ round' = round + 1
    /\ pc' = "start"
    /\ fixed' = None
    /\ result' = None
    /\ strategy' = 0
    /\ cut' = <<>>
    /\ parts' = <<>>
    /\ UNCHANGED verdict

\* a call of _looks_like_valid_cjk on its own
Validate ==
    /\ pc = "validate"
    /\ verdict' = _looks_like_valid_cjk(text)
    /\ pc' = "validated"
    /\ UNCHANGED <<text, fixed, result, strategy, round, cut, parts>>

Idle ==
    /\ fixed = None
    /\ result = None
    /\ strategy = 0
    /\ round = 1
    /\ cut = <<>>
    /\ parts = <<>>
    /\ verdict = FALSE

Init ==
    /\ text \in SeqsUpTo(Alphabet, MaxLen)
    /\ pc = "start"
    /\ Idle

InitIdem ==
    /\ text \in SeqsUpTo(IdemAlphabet, MaxLenIdem)
    /\ pc = "start"
    /\ Idle

InitCjk ==
    /\ text \in SeqsUpTo(CjkAlphabet, MaxLenCjk)
                  \cup SeqsUpTo(EdgeAlphabet, MaxLenEdge)
    /\ pc = "validate"
    /\ Idle

Next == Begin \/ Strategy1 \/ Strategy2 \/ Strategy3 \/ Reapply

NextCjk == Validate

Spec == Init /\ [][Next]_vars

SpecIdem == InitIdem /\ [][Next]_vars

SpecCjk == InitCjk /\ [][NextCjk]_vars

-----------------------------------------------------------------------------
(* Vocabulary of the properties *)

High(cp) == cp >= 128

Positions(t, P(_)) == {i \in 1..Len(t) : P(t[i])}

IsCjkLike(cp) ==
    \/ cp \in 19968..40959
    \/ cp \in 13312..19903
    \/ cp \in 12288..12351
    \/ cp \in 65280..65519

IsGarbageMarker(cp) == cp = REPLACEMENT \/ cp \in 128..255

IsLatin1High(cp) == cp \in 128..255

IsReplacement(cp) == cp = REPLACEMENT

IsQuestion(cp) == cp = QUESTION

IsUnmapped(cp) == ~ HasCp1252Mapping(cp)

NothingToRepair(t) ==
    \/ Len(t) = 0
    \/ Positions(t, High) = {}
    \/ Positions(t, IsLatin1High) = {} /\ Positions(t, IsReplacement) = {}

\* fix_text_encoding has returned
Returned == pc = "done"

\* the call got as far as the segmented strategy and has returned
SegmentedRan == Returned /\ strategy \in {0, 3} /\ ~ NothingToRepair(text)

\* the local fixed holds the Windows-1252 candidate
HoldsCp1252Candidate ==
    pc = "s3" \/ (Returned /\ strategy = 2)

-----------------------------------------------------------------------------
(* Properties *)

\* C1: a non-absent result of fix_text_encoding differs from the input and
\* is accepted by _looks_like_valid_cjk, whichever strategy produced it.
C1_ResultDiffersAndPlausible ==
    Returned /\ result # None =>
        /\ result # text
        /\ _looks_like_valid_cjk(result)
        /\ strategy \in {1, 2, 3}

C1_Witness ==
    /\ Returned
    /\ strategy = 3
    /\ result # None
    /\ Positions(result, IsGarbageMarker) # {}

\* C2: when fix_text_encoding returned u for t, fix_text_encoding(u)
\* returns None.
C2_IdempotentOnSuccess ==
    Returned /\ round > 1 => result = None

\* C3: an input that is empty, or all below 128, or without any code point
\* in 128..255 and without U+FFFD, returns None from the entry, with no
\* strategy attempted.
C3_FastReject ==
    [][pc = "start" /\ NothingToRepair(text) =>
          /\ pc' = "done"
          /\ result' = None
          /\ strategy' = 0
          /\ fixed' = fixed]_vars

C3_Witness ==
    /\ Returned
    /\ round = 1
    /\ fixed = None
    /\ result = None
    /\ Len(text) > 0
    /\ \A i \in 1..Len(text) : IsCjkLike(text[i])

\* C4: no exception leaves fix_text_encoding; a strategy that fails or is
\* not accepted hands over to the next one in order, and the last one
\* returns.
C4_NeverFails ==
    [][/\ pc' # "raised"
       /\ (pc = "s1" /\ Latin1Candidate(text).exc # NoExc => pc' = "s2")
       /\ (pc = "s1" => pc' \in {"s2", "done"})
       /\ (pc = "s2" => pc' \in {"s3", "done"})
       /\ (pc = "s3" => pc' = "done")]_vars

C4_Witness ==
    /\ Returned
    /\ strategy = 3
    /\ Latin1Encode(text).exc = "UnicodeEncodeError"

\* C5: the result is the first accepted candidate in the order Latin-1,
\* Windows-1252, segmented, and None when none is accepted.
C5_FirstAcceptedWins ==
    Returned =>
        LET c1 == Latin1Candidate(text)
            c2 == Cp1252Candidate(text).val
            c3 == _fix_text_segmented(text).val
            ok1 == /\ c1.exc = NoExc
                   /\ c1.val # text
                   /\ _looks_like_valid_cjk(c1.val)
            ok2 == /\ c2 # text
                   /\ _looks_like_valid_cjk(c2)
                   /\ Cardinality(Positions(c2, IsReplacement))
                        < Cardinality(Positions(text, IsReplacement))
            ok3 == c3 # text /\ _looks_like_valid_cjk(c3)
        IN  IF NothingToRepair(text) THEN result = None
            ELSE IF ok1 THEN result = c1.val /\ strategy = 1
            ELSE IF ok2 THEN result = c2 /\ strategy = 2
            ELSE IF ok3 THEN result = c3 /\ strategy = 3
            ELSE result = None

\* the Latin-1 path is not accepted, the Windows-1252 path is, and the
\* segmented path would have given another accepted text
C5_Witness ==
    /\ Returned
    /\ strategy = 2
    /\ LET c3 == _fix_text_segmented(text).val
       IN  c3 # text /\ c3 # result /\ _looks_like_valid_cjk(c3)

\* C6: the runs the segmented loop cuts are non-empty, uniformly high or
\* uniformly low, alternate, and joined in order give back the input; the
\* empty input gives no run.
C6_SegmentsPartition ==
    /\ SegmentedLocals(<<>>).cut = <<>>
    /\ SegmentedRan =>
        /\ Join(cut) = text
        /\ \A k \in 1..Len(cut) :
              /\ cut[k] # <<>>
              /\ \A i, j \in 1..Len(cut[k]) :
                    High(cut[k][i]) = High(cut[k][j])
        /\ \A k \in 1..(Len(cut) - 1) :
              High(cut[k][1]) # High(cut[k + 1][1])

C6_Witness ==
    /\ SegmentedRan
    /\ Len(cut) >= 3
    /\ \E k \in 1..Len(cut) : Len(cut[k]) >= 2

\* C7: _looks_like_valid_cjk is true exactly when at least one code point
\* is in the four CJK ranges and the garbage markers are at most 30% of
\* the length, equality included.
C7_ValidityHeuristic ==
    pc = "validated" =>
        LET cjk     == Cardinality(Positions(text, IsCjkLike))
            garbage == Cardinality(Positions(text, IsGarbageMarker))
        IN  /\ verdict = (cjk > 0 /\ 10 * garbage <= 3 * Len(text))
            /\ (Len(text) = 0 => ~ verdict)
            /\ (garbage = Len(text) => ~ verdict)
            /\ (cjk > 0 /\ garbage = 0 => verdict)

C7_Witness ==
    /\ pc = "validated"
    /\ verdict
    /\ Len(text) = 10
    /\ Cardinality(Positions(text, IsGarbageMarker)) = 3

\* C8: the segmented candidate is the join, in order, of the runs, a low
\* run verbatim, a high run replaced by the helper's text when it finds
\* one and unchanged, U+FFFD included, when it does not.
C8_SegmentedFrame ==
    SegmentedRan =>
        /\ Len(parts) = Len(cut)
        /\ fixed = Join(parts)
        /\ \A k \in 1..Len(cut) :
              LET seg     == cut[k]
                  repair  == _try_decode_segment(seg).val
              IN  /\ ~ High(seg[1]) => parts[k] = seg
                  /\ High(seg[1]) /\ repair # None => parts[k] = repair
                  /\ High(seg[1]) /\ repair = None => parts[k] = seg
                  /\ Positions(seg, IsReplacement) = 1..Len(seg)
                        => parts[k] = seg

C8_Witness ==
    /\ SegmentedRan
    /\ strategy = 3
    /\ \E k \in 1..Len(cut) : ~ High(cut[k][1])
    /\ \E k \in 1..Len(cut) : High(cut[k][1]) /\ parts[k] # cut[k]
    /\ \E k \in 1..Len(cut) :
          /\ Positions(cut[k], IsReplacement) # {}
          /\ parts[k] = cut[k]

\* C9 as stated: every code point of the input without a Windows-1252
\* mapping shows as a U+FFFD in the Windows-1252 candidate.
C9_UnmappedBecomesReplacement ==
    HoldsCp1252Candidate =>
        Cardinality(Positions(fixed, IsReplacement))
            >= Cardinality(Positions(text, IsUnmapped))

\* C9 amended: every code point of the input without a Windows-1252
\* mapping shows as a '?' in the Windows-1252 candidate, which so holds
\* one '?' per such code point besides the input's own; the same holds of
\* the Windows-1252 round-trip of every run the segmented strategy cuts.
C9_UnmappedBecomesQuestionMark ==
    /\ HoldsCp1252Candidate =>
          /\ fixed = Cp1252Candidate(text).val
          /\ Cardinality(Positions(fixed, IsQuestion))
                = Cardinality(Positions(text, IsQuestion))
                    + Cardinality(Positions(text, IsUnmapped))
    /\ SegmentedRan =>
          \A k \in 1..Len(cut) :
             Cardinality(Positions(Cp1252Candidate(cut[k]).val, IsQuestion))
                = Cardinality(Positions(cut[k], IsQuestion))
                    + Cardinality(Positions(cut[k], IsUnmapped))

C9_Witness ==
    /\ Returned
    /\ strategy = 2
    /\ \E i \in 1..Len(text) : IsCjkLike(text[i])
    /\ \E i \in 1..Len(text) : text[i] = 128
    /\ Cardinality(Positions(result, IsQuestion)) >= 3

\* C10: for an input without U+FFFD the Windows-1252 strategy never gives
\* the result, which is the strict Latin-1 candidate or the segmented one.
C10_NoCp1252WithoutReplacement ==
    Returned /\ Positions(text, IsReplacement) = {} =>
        /\ strategy # 2
        /\ result # None =>
              \/ /\ Latin1Candidate(text).exc = NoExc
                 /\ result = Latin1Candidate(text).val
              \/ result = _fix_text_segmented(text).val

\* the Windows-1252 candidate was plausible and only the count test kept
\* it from being returned
C10_Witness ==
    /\ Returned
    /\ Positions(text, IsReplacement) = {}
    /\ strategy = 3
    /\ Cp1252Candidate(text).val # text
    /\ _looks_like_valid_cjk(Cp1252Candidate(text).val)

=============================================================================
